---- MODULE Spec2Model ----
(***************************************************************************)
(* Model of af2_analysis: data.py (class Data) and the directory reader    *)
(* format/af3_webserver.py.  A Data object is built from a directory       *)
(* (read_directory), its table can be filtered (keep_last_recycle) and     *)
(* scored (compute_pdockq, compute_pdockq2).                               *)
(*                                                                         *)
(* A table cell is a record [kind, val]: the kind of the Python value     *)
(* and an integer (0 when the kind carries none).  Floats are fixed-point, *)
(* in thousandths.                                                         *)
(***************************************************************************)
EXTENDS Integers, Sequences, FiniteSets, TLC

VARIABLES dir, format, df, chains, chain_length, error, invoked, log_pd

vars == <<dir, format, df, chains, chain_length, error, invoked, log_pd>>

----------------------------------------------------------------------------
(* Bounds of the explored inputs *)

\* structure files (.cif) in a directory without log.txt
MaxModels == 2
\* entries of log.txt in a colabfold directory
MaxLogRows == 3
\* recycle counts range over 0..MaxRecycle
MaxRecycle == 2

----------------------------------------------------------------------------
(* Cells *)

None == [kind |-> "None", val |-> 0]
NaN == [kind |-> "NaN", val |-> 0]
Int_(n) == [kind |-> "int", val |-> n]
Float(n) == [kind |-> "float", val |-> n]
Str(n) == [kind |-> "str", val |-> n]
\* the path of a file of unit u of the directory
PdbPath(u) == [kind |-> "pdb_path", val |-> u]
JsonPath(u) == [kind |-> "json_path", val |-> u]

\* Python truthiness of a path cell: `if pdb and json_path`
Truthy(c) == c.kind \notin {"None"}

KeyId(key) == CASE key = "pae" -> 1 [] key = "a" -> 2 [] key = "b" -> 3 [] key = "iptm" -> 4 [] OTHER -> 0
\* the value stored under `key` in the JSON file of unit u
JsonValue(u, key) == [kind |-> "json_value", val |-> 10 * u + KeyId(key)]

----------------------------------------------------------------------------
(* Fixed-point arithmetic (thousandths); NaN propagates as in numpy *)

IsNaN(c) == c.kind = "NaN"

RECURSIVE SumTo(_, _)
SumTo(s, n) == IF n = 0 THEN 0 ELSE s[n] + SumTo(s, n - 1)
SumSeq(s) == SumTo(s, Len(s))

\* np.mean of a sequence of fixed-point numbers: NaN for an empty one
Mean(s) == IF Len(s) = 0 THEN NaN ELSE Float(SumSeq(s) \div Len(s))

FMul(c1, c2) == IF IsNaN(c1) \/ IsNaN(c2) THEN NaN ELSE Float((c1.val * c2.val) \div 1000)

\* exp(u) for u in thousandths, -2000 <= u <= 7000: Taylor on u/8, then three squarings
M(p, q) == (p * q) \div 1000
Exp(u) ==
    LET t == u \div 8
        t2 == M(t, t)
        t3 == M(t2, t)
        t4 == M(t3, t)
        e1 == 1000 + t + (t2 \div 2) + (t3 \div 6) + (t4 \div 24)
        e2 == M(e1, e1)
        e4 == M(e2, e2)
    IN  M(e4, e4)

----------------------------------------------------------------------------
(* compute_pdockq2 constants, data.py:315-317 *)

cutoff == 8
\* L, x0, b in thousandths; k in ten-thousandths
L == 1310
x0 == 84733
k == 747
b == 5
d0 == 10

\* y = L / (1 + np.exp(-k*(x-x0))) + b
Logistic(x) ==
    IF IsNaN(x) THEN NaN
    ELSE LET u == (k * (x0 - x.val)) \div 10000
         IN  Float(((L * 1000) \div (1000 + Exp(u))) + b)

----------------------------------------------------------------------------
(* Structure files.  An atom has a name, a chain, a residue index          *)
(* (uniq_resid, 0-based over the whole structure), a confidence value beta *)
(* (pLDDT) and a position on a line (in Angstrom).                         *)

Atom(n, c, r, bt, px) == [name |-> n, chain |-> c, uniq_resid |-> r, beta |-> bt, x |-> px]

\* chains A and B in contact (residues 0 and 2), chain C isolated
Structure1 ==
    << Atom("N", "A", 0, 10, 1), Atom("CA", "A", 0, 90, 0),
       Atom("CA", "A", 1, 40, 30),
       Atom("N", "B", 2, 20, 4), Atom("CA", "B", 2, 60, 5),
       Atom("CA", "C", 3, 70, 100) >>

\* A-B in contact (residues 1 and 2) and B-C in contact (residues 2 and 3)
Structure2 ==
    << Atom("CA", "A", 0, 80, 0),
       Atom("CA", "A", 1, 50, 30),
       Atom("CA", "B", 2, 90, 35),
       Atom("CA", "C", 3, 30, 41), Atom("N", "C", 3, 30, 42) >>

Structures == <<Structure1, Structure2>>
StructureIds == 1..Len(Structures)

\* the "pae" matrix of a full-data payload, indexed by uniq_resid (not symmetric)
PaeMatrix ==
    << <<0, 3, 10, 20>>,
       <<4, 0, 5, 15>>,
       <<20, 10, 0, 0>>,
       <<30, 25, 10, 0>> >>

----------------------------------------------------------------------------
(* Atom selections of pdb_numpy, as compute_pdockq2 uses them *)

Within(a1, a2) == (a1.x - a2.x) * (a1.x - a2.x) <= cutoff * cutoff

\* model.select_atoms('name CA')
SelectCA(model) ==
    LET IsCA(a) == a.name = "CA" IN SelectSeq(model, IsCA)

\* "(chain C and within cutoff of not chain C)"
ChainSel(model_CA, chain) ==
    LET Test(a) == /\ a.chain = chain
                   /\ \E j \in 1..Len(model_CA) :
                          model_CA[j].chain # chain /\ Within(a, model_CA[j])
    IN  SelectSeq(model_CA, Test)

\* "(not chain C C and within cutoff of chain C)"
InterChainSel(model_CA, chain) ==
    LET Test(a) == /\ a.chain # chain
                   /\ \E j \in 1..Len(model_CA) :
                          model_CA[j].chain = chain /\ Within(a, model_CA[j])
    IN  SelectSeq(model_CA, Test)

\* "(chain C and within cutoff of not chain C) or
\*  (not chain C and within cutoff of chain C)"
InterfaceSel(model_CA, chain) ==
    LET Test(a) == \/ /\ a.chain = chain
                      /\ \E j \in 1..Len(model_CA) :
                             model_CA[j].chain # chain /\ Within(a, model_CA[j])
                   \/ /\ a.chain # chain
                      /\ \E j \in 1..Len(model_CA) :
                             model_CA[j].chain = chain /\ Within(a, model_CA[j])
    IN  SelectSeq(model_CA, Test)

Beta(sel) == [i \in 1..Len(sel) |-> 1000 * sel[i].beta]
UniqResid(sel) == [i \in 1..Len(sel) |-> sel[i].uniq_resid]

\* 1/(1+(pae/d0)**2), in thousandths
Norm(pae) == (1000 * d0 * d0) \div (d0 * d0 + pae * pae)

\* np.mean(1/(1+(pae_array[rows][:, cols]/d0)**2))
NormIfInterPae(pae_array, rows, cols) ==
    Mean([n \in 1..(Len(rows) * Len(cols)) |->
            Norm(pae_array[rows[((n - 1) \div Len(cols)) + 1] + 1]
                          [cols[((n - 1) % Len(cols)) + 1] + 1])])

\* plddt_avg = np.mean(interface_sel.beta)
PlddtAvg(model_CA, chain) == Mean(Beta(InterfaceSel(model_CA, chain)))

\* the value appended to pdockq_list[i] for one structure, pae matrix and chain
PdockQ2(model, pae_array, chain) ==
    LET model_CA == SelectCA(model)
        plddt_avg == PlddtAvg(model_CA, chain)
        chain_sel == ChainSel(model_CA, chain)
        inter_chain_sel == InterChainSel(model_CA, chain)
        norm_if_interpae ==
            NormIfInterPae(pae_array, UniqResid(chain_sel), UniqResid(inter_chain_sel))
        x == FMul(norm_if_interpae, plddt_avg)
    IN  Logistic(x)

----------------------------------------------------------------------------
(* Directories.  A directory holds log.txt or not, and a sequence of model *)
(* units: the .cif files os.listdir returns (no log.txt) or the entries of *)
(* log.txt (colabfold).  A unit has its key fields, the state of its       *)
(* summary-confidences file, its full-data payload and its structure.      *)

\* full-data payloads: no file, an unparsable file, or a JSON object
PayloadKinds == {"missing", "malformed", "pae_a", "pae_b", "a", "b"}
PayloadKeys(p) ==
    CASE p = "pae_a" -> {"pae", "a"}
      [] p = "pae_b" -> {"pae", "b"}
      [] p = "a" -> {"a"}
      [] p = "b" -> {"b"}
      [] OTHER -> {}
\* keys of a JSON object, in the order .keys() yields them
KeyOrder == <<"pae", "a", "b">>

SummaryKinds == {"missing", "ok"}
SummaryKeys(s) == IF s = "ok" THEN {"iptm"} ELSE {}

\* (query, seed, model, weight) of the jobs of a colabfold log
KeyTuples == {<<1, 0, 1, 1>>, <<1, 0, 1, 2>>}

Unit(q, sd, m, w, r, sm, p, st) ==
    [query |-> q, seed |-> sd, model |-> m, weight |-> w, recycle |-> r,
     summary |-> sm, payload |-> p, structure |-> st]

\* fold_<query>_model_<i>.cif with its companions
DefaultChoices == SummaryKinds \X PayloadKinds \X StructureIds
DefaultDirs ==
    UNION { { [hasLog |-> FALSE,
               units |-> [i \in 1..n |-> Unit(1, 0, i - 1, 0, 0, f[i][1], f[i][2], f[i][3])]] :
              f \in [1..n -> DefaultChoices] } : n \in 0..MaxModels }

\* a log entry: its job, its recycle count and its structure file (0: the
\* directory holds none, which happens for entries of recycle 0)
ColabChoices ==
    {c \in KeyTuples \X (0..MaxRecycle) \X {0, 1} : c[3] = 1 \/ c[2] = 0}
ColabDirs ==
    UNION { { [hasLog |-> TRUE,
               units |-> [i \in 1..n |->
                            Unit(f[i][1][1], f[i][1][2], f[i][1][3], f[i][1][4], f[i][2],
                                 "ok", "pae_a", f[i][3])]] :
              f \in [1..n -> ColabChoices] } : n \in 0..MaxLogRows }

----------------------------------------------------------------------------
(* pandas.DataFrame: index labels and named columns of cells *)

NoDf == [index |-> <<>>, cols |-> [c \in {} |-> <<>>]]
Columns(d) == DOMAIN d.cols
NRows(d) == Len(d.index)

\* df[name] = values
SetColumn(d, name, values) ==
    [d EXCEPT !.cols = [c \in (DOMAIN d.cols) \cup {name} |->
                            IF c = name THEN values ELSE d.cols[c]]]

\* df[mask]: the rows whose mask is TRUE, in order, with their labels
RECURSIVE Keep(_, _)
Keep(mask, n) ==
    IF n = 0 THEN <<>>
    ELSE IF mask[n] THEN Append(Keep(mask, n - 1), n) ELSE Keep(mask, n - 1)
SelectRows(d, mask) ==
    LET kept == Keep(mask, NRows(d))
    IN  [index |-> [i \in 1..Len(kept) |-> d.index[kept[i]]],
         cols |-> [c \in DOMAIN d.cols |-> [i \in 1..Len(kept) |-> d.cols[c][kept[i]]]]]

----------------------------------------------------------------------------
(* Results of operations that may raise: the table and the exception *)

Ok(d) == [df |-> d, error |-> "none"]
Raise(d, e) == [df |-> d, error |-> e]

\* the exception the last call raised, and the function that raised it
NoError == [op |-> "", kind |-> "none"]
Error(o, e) == IF e = "none" THEN NoError ELSE [op |-> o, kind |-> e]

\* the positions 1..n satisfying a test, in order
RECURSIVE Positions(_, _)
Positions(test, n) ==
    IF n = 0 THEN <<>>
    ELSE IF test[n] THEN Append(Positions(test, n - 1), n) ELSE Positions(test, n - 1)

Range(s) == {s[i] : i \in DOMAIN s}

----------------------------------------------------------------------------
(* format/af3_webserver.py: read_dir.  One record per .cif file; the       *)
(* summary-confidences file is opened unconditionally and the full-data    *)
(* path is recorded without looking at the directory.                      *)
(* Data.read_directory reaches this reader under the name                  *)
(* default.read_dir.                                                       *)

read_dir(directory) ==
    LET units == directory.units
        n == Len(units)
        native == UNION {SummaryKeys(units[i].summary) : i \in 1..n}
        names == IF n = 0 THEN {} ELSE {"pdb", "query", "model", "json"} \cup native
        Cell(c, i) ==
            CASE c = "pdb" -> PdbPath(i)
              [] c = "query" -> Str(units[i].query)
              [] c = "model" -> Int_(units[i].model)
              [] c = "json" -> JsonPath(i)
              [] OTHER -> IF c \in SummaryKeys(units[i].summary)
                          THEN JsonValue(i, c) ELSE NaN
    IN  IF \E i \in 1..n : units[i].summary = "missing"
        THEN Raise(NoDf, "FileNotFoundError")
        ELSE Ok([index |-> [i \in 1..n |-> i - 1],
                 cols |-> [c \in names |-> [i \in 1..n |-> Cell(c, i)]]])

\* default.add_json: the payload reference of every row, None where the
\* directory has no full-data file for it
add_json(d, directory) ==
    IF NRows(d) = 0 THEN d
    ELSE SetColumn(d, "json",
            [i \in 1..NRows(d) |->
                IF directory.units[d.cols["pdb"][i].val].payload = "missing"
                THEN None ELSE JsonPath(d.cols["pdb"][i].val)])

\* colabfold_1_5.read_log, add_pdb and add_json: one row per log entry with
\* its key fields and its structure and payload references (every entry of
\* the log is kept, whatever keep_recycles says)
read_log(directory) ==
    LET units == directory.units
        n == Len(units)
        names == IF n = 0 THEN {}
                 ELSE {"query", "seed", "model", "weight", "recycle", "pdb", "json"}
        Cell(c, i) ==
            CASE c = "query" -> Str(units[i].query)
              [] c = "seed" -> Int_(units[i].seed)
              [] c = "model" -> Int_(units[i].model)
              [] c = "weight" -> Str(units[i].weight)
              [] c = "recycle" -> Int_(units[i].recycle)
              [] c = "pdb" -> IF units[i].structure = 0 THEN None ELSE PdbPath(i)
              [] OTHER -> IF units[i].payload = "missing" THEN None ELSE JsonPath(i)
    IN  [index |-> [i \in 1..n |-> i - 1],
         cols |-> [c \in names |-> [i \in 1..n |-> Cell(c, i)]]]

----------------------------------------------------------------------------
(* Data.extract_json, data.py:87-121 *)

\* json.load of the file a json cell names
LoadError(directory, cell) ==
    LET p == directory.units[cell.val].payload
    IN  CASE p = "missing" -> "FileNotFoundError"
          [] p = "malformed" -> "JSONDecodeError"
          [] OTHER -> "none"
Payload(directory, cell) == PayloadKeys(directory.units[cell.val].payload)

\* lines 118-121, for the keys of json_list[0] in order: the column is set to
\* NaN, and pd.Series raises when some payload did not supply the key
RECURSIVE AssignColumns(_, _, _, _)
AssignColumns(d, directory, index_list, keys) ==
    IF Len(keys) = 0 THEN Ok(d)
    ELSE LET key == Head(keys)
             blank == SetColumn(d, key, [i \in 1..NRows(d) |-> NaN])
             json == d.cols["json"]
         IN  IF \E j \in 1..Len(index_list) :
                    key \notin Payload(directory, json[index_list[j]])
             THEN Raise(blank, "ValueError")
             ELSE AssignColumns(
                    SetColumn(d, key,
                        [i \in 1..NRows(d) |->
                            IF i \in Range(index_list)
                            THEN JsonValue(json[i].val, key) ELSE NaN]),
                    directory, index_list, Tail(keys))

extract_json(d, directory) ==
    LET n == NRows(d)
        json == IF n = 0 THEN <<>> ELSE d.cols["json"]
        \* rows with `row.json is not None`
        index_list == Positions([i \in 1..n |-> json[i].kind # "None"], n)
        m == Len(index_list)
        failing == {j \in 1..m : LoadError(directory, json[index_list[j]]) # "none"}
        first == Payload(directory, json[index_list[1]])
        InFirst(key) == key \in first
    IN  IF failing # {}
        THEN Raise(d, LoadError(directory,
                        json[index_list[CHOOSE j \in failing : \A j2 \in failing : j <= j2]]))
        ELSE IF m = 0 THEN Raise(d, "IndexError")
        ELSE IF \E j \in 1..m : ~(Payload(directory, json[index_list[j]]) \subseteq first)
        THEN Raise(d, "KeyError")
        ELSE AssignColumns(d, directory, index_list, SelectSeq(KeyOrder, InFirst))

----------------------------------------------------------------------------
(* Topology of the first row's structure, data.py:65-67 *)

ChainOrder == <<"A", "B", "C">>

\* list(np.unique(first_model.models[0].chain)): sorted, without repeats
ChainsOf(model) ==
    LET Present(c) == \E i \in 1..Len(model) : model[i].chain = c
    IN  SelectSeq(ChainOrder, Present)

ChainLengthOf(model) ==
    LET cs == ChainsOf(model)
    IN  [i \in 1..Len(cs) |->
            Cardinality({model[j].uniq_resid : j \in {j2 \in 1..Len(model) : model[j2].chain = cs[i]}})]

\* pdb_numpy.Coor(path)
Coor(directory, cell) == Structures[directory.units[cell.val].structure]

----------------------------------------------------------------------------
(* Data.keep_last_recycle, data.py:154-160 *)

GroupBy == {"query", "seed", "model", "weight"}

SameGroup(d, i, j) == \A c \in GroupBy : d.cols[c][i] = d.cols[c][j]

\* groupby([...])['recycle'].transform(max), at row i
GroupMax(d, i) ==
    LET members == {d.cols["recycle"][j].val : j \in {j2 \in 1..NRows(d) : SameGroup(d, i, j2)}}
    IN  CHOOSE r \in members : \A r2 \in members : r2 <= r

\* transform(max) over the whole table instead of per group
KeepMaskGlobalMax(d) ==
    [i \in 1..NRows(d) |->
        \A j \in 1..NRows(d) : d.cols["recycle"][j].val <= d.cols["recycle"][i].val]

\* the comparison turned round: rows below their group's maximum
KeepMaskBelowMax(d) == [i \in 1..NRows(d) |-> GroupMax(d, i) > d.cols["recycle"][i].val]

\* idx = ...transform(max) == self.df['recycle']
KeepMask(d) == [i \in 1..NRows(d) |-> GroupMax(d, i) = d.cols["recycle"][i].val]

KeepLastRecycle(d) ==
    IF ~((GroupBy \cup {"recycle"}) \subseteq Columns(d))
    THEN Raise(d, "KeyError")
    ELSE Ok(SelectRows(d, KeepMask(d)))

----------------------------------------------------------------------------
(* Data.compute_pdockq, data.py:283-300 *)

\* pdb_numpy.analysis.compute_pdockQ on a one-model structure file: the
\* score is a function of the structure
compute_pdockQ(directory, cell) == [kind |-> "pdockq", val |-> directory.units[cell.val].structure]

\* the reference of row i that a scoring loop reads
RowPdb(d, i) == d.cols["pdb"][i]
RowJson(d, i) == d.cols["json"][i]

ComputePdockq(d, directory) ==
    Ok(SetColumn(d, "pdockq",
          [i \in 1..NRows(d) |->
              IF Truthy(RowPdb(d, i)) THEN compute_pdockQ(directory, RowPdb(d, i)) ELSE None]))

----------------------------------------------------------------------------
(* Data.compute_pdockq2, data.py:302-365 *)

\* 0.0 appended in place of None
MissingScoreZero == Float(0)

\* what a row without structure or payload gets, line 361
MissingScore == None

\* `if pdb and json_path`, line 323
Scorable(d, i) == Truthy(RowPdb(d, i)) /\ Truthy(RowJson(d, i))

\* json.load(f) and local_json['pae'], lines 334-336
PaeError(directory, cell) ==
    IF LoadError(directory, cell) # "none" THEN LoadError(directory, cell)
    ELSE IF "pae" \notin Payload(directory, cell) THEN "KeyError"
    ELSE "none"

\* the entry of pdockq_list[chain] for row i
Score(d, directory, i, chain) ==
    IF Scorable(d, i)
    THEN PdockQ2(Coor(directory, RowPdb(d, i)), PaeMatrix, chain)
    ELSE MissingScore

PdockQ2Column(chain) == "pdockq2_" \o chain

RECURSIVE SetScores(_, _, _, _)
SetScores(d, directory, chain_list, n) ==
    IF n = 0 THEN d
    ELSE SetColumn(SetScores(d, directory, chain_list, n - 1),
                   PdockQ2Column(chain_list[n]),
                   [i \in 1..NRows(d) |-> Score(d, directory, i, chain_list[n])])

ComputePdockq2(d, directory, chain_list) ==
    LET failing == {i \in 1..NRows(d) :
                        /\ Scorable(d, i)
                        /\ Len(chain_list) > 0
                        /\ PaeError(directory, RowJson(d, i)) # "none"}
    IN  IF failing # {}
        THEN Raise(d, PaeError(directory,
                        RowJson(d, CHOOSE i \in failing : \A i2 \in failing : i <= i2)))
        ELSE Ok(SetScores(d, directory, chain_list, Len(chain_list)))

----------------------------------------------------------------------------
(* Data.read_directory, data.py:37-67 *)

\* lines 65-67 on the table the format branch left
Topology(d, directory, fmt, readers, raw) ==
    LET base == [format |-> fmt, df |-> d, chains |-> <<>>, chain_length |-> <<>>,
                 invoked |-> readers, log_pd |-> raw]
    IN  IF NRows(d) = 0 THEN base @@ [error |-> Error("read_directory", "KeyError")]
        ELSE IF ~Truthy(d.cols["pdb"][1])
        THEN base @@ [error |-> Error("read_directory", "TypeError")]
        ELSE LET first_model == Coor(directory, d.cols["pdb"][1])
             IN  [base EXCEPT !.chains = ChainsOf(first_model),
                              !.chain_length = ChainLengthOf(first_model)]
                 @@ [error |-> NoError]

\* os.path.isfile(os.path.join(directory, 'log.txt'))
IsColabfold(directory) == directory.hasLog

ReadDirectory(directory) ==
    IF IsColabfold(directory)
    THEN LET d == read_log(directory)
         IN  Topology(d, directory, "colabfold_1.5", {"colabfold_1_5.read_log"}, d)
    ELSE LET r == read_dir(directory)
             readers == {"default.read_dir"}
             failed(d, e, raw) ==
                 [format |-> "default", df |-> d, chains |-> <<>>, chain_length |-> <<>>,
                  invoked |-> readers, log_pd |-> raw, error |-> e]
         IN  IF r.error # "none" THEN failed(NoDf, Error("read_dir", r.error), NoDf)
             ELSE LET x == extract_json(add_json(r.df, directory), directory)
                  IN  IF x.error # "none"
                      THEN failed(x.df, Error("extract_json", x.error), r.df)
                      ELSE Topology(x.df, directory, "default", readers, r.df)

----------------------------------------------------------------------------
(* The state machine: a Data object built from one directory *)

Init ==
    /\ dir \in DefaultDirs \cup ColabDirs
    /\ format = "unset"
    /\ df = NoDf
    /\ chains = <<>>
    /\ chain_length = <<>>
    /\ error = NoError
    /\ invoked = {}
    /\ log_pd = NoDf

\* the constructor returned a Data object
Built == Len(chains) > 0

\* Data(directory)
read_directory ==
    /\ format = "unset"
    /\ LET r == ReadDirectory(dir)
       IN  /\ format' = r.format
           /\ df' = r.df
           /\ chains' = r.chains
           /\ chain_length' = r.chain_length
           /\ error' = r.error
           /\ invoked' = r.invoked
           /\ log_pd' = r.log_pd
    /\ UNCHANGED dir

keep_last_recycle ==
    /\ Built
    /\ LET r == KeepLastRecycle(df)
       IN  df' = r.df /\ error' = Error("keep_last_recycle", r.error)
    /\ UNCHANGED <<dir, format, chains, chain_length, invoked, log_pd>>

compute_pdockq ==
    /\ Built
    /\ LET r == ComputePdockq(df, dir)
       IN  df' = r.df /\ error' = Error("compute_pdockq", r.error)
    /\ UNCHANGED <<dir, format, chains, chain_length, invoked, log_pd>>

compute_pdockq2 ==
    /\ Built
    /\ LET r == ComputePdockq2(df, dir, chains)
       IN  df' = r.df /\ error' = Error("compute_pdockq2", r.error)
    /\ UNCHANGED <<dir, format, chains, chain_length, invoked, log_pd>>

Next ==
    \/ read_directory
    \/ keep_last_recycle
    \/ compute_pdockq
    \/ compute_pdockq2

Spec == Init /\ [][Next]_vars

----------------------------------------------------------------------------
(* Properties *)

\* the structure and the payload keys of the files row i of the table names
RowStructure(i) == Structures[dir.units[df.cols["pdb"][i].val].structure]
RowIsNull(i) == df.cols["pdb"][i] = None \/ df.cols["json"][i] = None
ChainSet == {chains[c] : c \in 1..Len(chains)}

\* compute_pdockq2 has written its columns
HasPdockq2 == Built /\ \A ch \in ChainSet : PdockQ2Column(ch) \in Columns(df)

\* C2: after compute_pdockq2 completes, every row whose structure or payload
\* reference is null holds None in every pdockq2_<chain> column, each such
\* column has one cell per row, and every other row holds the score of its own
\* structure.
C2_NullRowsAbsent ==
    HasPdockq2 =>
        \A ch \in ChainSet :
            LET col == df.cols[PdockQ2Column(ch)]
            IN  /\ DOMAIN col = 1..NRows(df)
                /\ \A i \in 1..NRows(df) :
                      IF RowIsNull(i) THEN col[i] = None
                      ELSE col[i] = PdockQ2(RowStructure(i), PaeMatrix, ch)

\* C2 witness: a scored table with a row without reference and a scored row
C2_Witness ==
    /\ HasPdockq2
    /\ \E i \in 1..NRows(df) : RowIsNull(i)
    /\ \E i \in 1..NRows(df) : ~RowIsNull(i) /\ df.cols[PdockQ2Column("A")][i].kind = "float"

\* C3: a chain with no representative atom within the cutoff of another chain
\* gets None in its pdockq2 column, for every row with structure and payload.
C3_EmptyInterfaceAbsent ==
    HasPdockq2 =>
        \A ch \in ChainSet : \A i \in 1..NRows(df) :
            (~RowIsNull(i) /\ Len(ChainSel(SelectCA(RowStructure(i)), ch)) = 0)
                => df.cols[PdockQ2Column(ch)][i] = None

\* C4: compute_pdockq2 never raises on a payload that cannot be read or has no
\* pae matrix: it returns, the row of that payload holds None and the columns
\* are written for all rows.
C4_BadPayloadAbsorbed ==
    [][compute_pdockq2 =>
          /\ error' = NoError
          /\ HasPdockq2'
          /\ \A i \in 1..NRows(df) :
                (~RowIsNull(i) /\ PaeError(dir, df.cols["json"][i]) # "none")
                    => \A ch \in ChainSet : df'.cols[PdockQ2Column(ch)][i] = None]_vars

\* the rows of the directory whose payload extract_json loads (add_json left
\* their reference non-null)
LoadedUnits == {i \in 1..Len(dir.units) : dir.units[i].payload # "missing"}
FanInRan == format = "default" /\ error.op # "read_dir"

\* C1: when extract_json has loaded readable payloads, it does not fail, the
\* columns it adds are the union of the keys of all loaded payloads, each
\* defined for every row, NaN where the row's payload lacks the key or the row
\* has no payload.
C1_FanInUnion ==
    (/\ FanInRan
     /\ LoadedUnits # {}
     /\ \A i \in LoadedUnits : dir.units[i].payload # "malformed")
    => /\ error.op # "extract_json"
       /\ LET union == UNION {PayloadKeys(dir.units[i].payload) : i \in LoadedUnits}
          IN  /\ Columns(df) \ Columns(log_pd) = union
              /\ \A key \in union :
                    /\ DOMAIN df.cols[key] = 1..Len(dir.units)
                    /\ \A i \in 1..Len(dir.units) :
                          df.cols[key][i] =
                              IF key \in PayloadKeys(dir.units[i].payload)
                              THEN JsonValue(i, key) ELSE NaN

\* a table row's group and recycle count, read from the table itself
SameKey(d1, i, d2, j) ==
    \A c \in {"query", "seed", "model", "weight"} : d1.cols[c][i] = d2.cols[c][j]
AtGroupMax(d, i) ==
    \A j \in 1..NRows(d) :
        SameKey(d, i, d, j) => d.cols["recycle"][j].val <= d.cols["recycle"][i].val

\* C5: a keep_last_recycle that returns leaves exactly the rows at the maximum
\* recycle of their (query, seed, model, weight) group, in their order and with
\* their labels and cells, and every group keeps a row.
C5_KeepsGroupMax ==
    [][(keep_last_recycle /\ error' = NoError) =>
          LET survivors == Positions([i \in 1..NRows(df) |-> AtGroupMax(df, i)], NRows(df))
          IN  /\ df'.index = [m \in 1..Len(survivors) |-> df.index[survivors[m]]]
              /\ Columns(df') = Columns(df)
              /\ \A c \in Columns(df) :
                    df'.cols[c] = [m \in 1..Len(survivors) |-> df.cols[c][survivors[m]]]
              /\ \A i \in 1..NRows(df) : \E m \in 1..NRows(df') : SameKey(df, i, df', m)]_vars

\* C5 witness: a filtered table that lost a row and kept two rows of one group
C5_Witness ==
    /\ Built
    /\ format = "colabfold_1.5"
    /\ NRows(df) < Len(dir.units)
    /\ \E i, j \in 1..NRows(df) : i # j /\ SameKey(df, i, df, j)

\* C6: applying keep_last_recycle to the table keep_last_recycle left gives
\* the same table (rows, labels, cells) and raises what it raised before.
C6_KeepLastRecycleIdempotent ==
    [][keep_last_recycle =>
          /\ KeepLastRecycle(df').df = df'
          /\ Error("keep_last_recycle", KeepLastRecycle(df').error) = error']_vars

\* C6 witness: a filtered table that lost a row and holds rows of two groups
C6_Witness ==
    /\ Built
    /\ format = "colabfold_1.5"
    /\ NRows(df) < Len(dir.units)
    /\ \E i, j \in 1..NRows(df) : ~SameKey(df, i, df, j)

\* C7: read_dir does not fail when a companion JSON file of a structure file
\* is missing; it returns a record for every structure file, its payload
\* reference None when the full-data file is missing, and a non-null payload
\* reference names a file of the directory.
C7_MissingPayloadNull ==
    format = "default" =>
        /\ error.op # "read_dir"
        /\ NRows(log_pd) = Len(dir.units)
        /\ \A i \in 1..Len(dir.units) :
              /\ dir.units[i].payload = "missing" => log_pd.cols["json"][i] = None
              /\ log_pd.cols["json"][i] # None =>
                    dir.units[log_pd.cols["json"][i].val].payload # "missing"

\* C8: on a directory with no log.txt and no structure file, read_directory
\* fails with a configuration error and invokes no reader; a reader is invoked
\* only on a directory that holds its marker.
C8_NoFormatIsConfigurationError ==
    format # "unset" =>
        /\ (~dir.hasLog /\ Len(dir.units) = 0)
              => (error.kind = "ConfigurationError" /\ invoked = {})
        /\ "colabfold_1_5.read_log" \in invoked => dir.hasLog
        /\ "default.read_dir" \in invoked => (~dir.hasLog /\ Len(dir.units) > 0)

\* the cells the scoring functions are to write for row i of table d
PdockqCell(d, i) ==
    IF d.cols["pdb"][i] = None THEN None
    ELSE [kind |-> "pdockq", val |-> dir.units[d.cols["pdb"][i].val].structure]
Pdockq2Cell(d, i, ch) ==
    IF d.cols["pdb"][i] = None \/ d.cols["json"][i] = None THEN None
    ELSE PdockQ2(Structures[dir.units[d.cols["pdb"][i].val].structure], PaeMatrix, ch)

\* C9: read_directory leaves one row per model unit in the reader's order, and
\* every call of compute_pdockq or compute_pdockq2 on the built table returns
\* with the rows and the other columns as they were and its score columns
\* written, one cell per row, holding the row's own score or None.
C9_ScoredTableShape ==
    [][/\ (read_directory /\ error' = NoError)
             => df'.index = [i \in 1..Len(dir.units) |-> i - 1]
       /\ compute_pdockq =>
             /\ error' = NoError
             /\ df'.index = df.index
             /\ Columns(df') = Columns(df) \cup {"pdockq"}
             /\ \A c \in Columns(df) \ {"pdockq"} : df'.cols[c] = df.cols[c]
             /\ df'.cols["pdockq"] = [i \in 1..NRows(df) |-> PdockqCell(df, i)]
       /\ compute_pdockq2 =>
             /\ error' = NoError
             /\ df'.index = df.index
             /\ Columns(df') = Columns(df) \cup {PdockQ2Column(ch) : ch \in ChainSet}
             /\ \A c \in Columns(df) \ {PdockQ2Column(ch) : ch \in ChainSet} :
                   df'.cols[c] = df.cols[c]
             /\ \A ch \in ChainSet :
                   df'.cols[PdockQ2Column(ch)] =
                       [i \in 1..NRows(df) |-> Pdockq2Cell(df, i, ch)]]_vars

\* C10: the atoms averaged into plddt_avg for chain C are CA atoms of chain C
\* within the cutoff of an atom of another chain, for every scored row.
C10_PlddtOwnChainOnly ==
    HasPdockq2 =>
        \A ch \in ChainSet : \A i \in 1..NRows(df) :
            ~RowIsNull(i) =>
                LET model_CA == SelectCA(RowStructure(i))
                    sel == InterfaceSel(model_CA, ch)
                IN  /\ \A m \in 1..Len(sel) :
                          /\ sel[m].name = "CA"
                          /\ sel[m].chain = ch
                          /\ \E j \in 1..Len(model_CA) :
                                model_CA[j].chain # ch /\ Within(sel[m], model_CA[j])
                    /\ PlddtAvg(model_CA, ch) = Mean(Beta(ChainSel(model_CA, ch)))

====
